---- MODULE Spec2Model ----
(***************************************************************************)
(* A model of the listing scoring and analysis engine of booking-agent-py  *)
(* (src/accommodation_agent.py, src/advanced_accommodation_agent.py) and   *)
(* of the runs that drive it (src/cli_interface.py, src/test_agent.py).    *)
(*                                                                         *)
(* Numbers.  Python floats are modelled as exact rationals:                *)
(*   - a price is a whole number of currency units;                        *)
(*   - a rating (and a host rating) is held in tenths: 45 is 4.5;          *)
(*   - a value_score is held as a numerator over ScoreDen(criteria), so    *)
(*     value_score 43 under criteria c is the number 43 * ScoreDen(c);     *)
(*   - a location_score is the plain number 80, 60 or 40;                  *)
(*   - an overall_score is a numerator over 2 * ScoreDen(criteria).        *)
(* Optional[T] is a sequence: None is << >> and a present x is << x >>.    *)
(* A text that the code searches (a location) is a sequence of one-        *)
(* character strings; texts that are only copied or compared for equality  *)
(* (titles, amenity names, urls) are strings.                              *)
(***************************************************************************)
EXTENDS Integers, Sequences, FiniteSets, TLC

VARIABLES
    pc,         \* position of the caller: "ready", "submitted", "analyzed",
                \* "raised"; in a run, the step that comes next
    criteria,   \* the SearchCriteria given to analyze_search_results
    results,    \* the results mapping given to analyze_search_results
    analysis,   \* the SearchAnalysis returned, or the exception raised
    call,       \* a direct call of a scoring method: arguments and outcome
    variant,    \* a second call, on a listing that differs in one field
    run,        \* a run of the test or of the command line: its kind, the
                \* browser, the steps called, the exception raised
    met         \* what the searches of the run met: a failing step and the
                \* results page, for each platform

vars == <<pc, criteria, results, analysis, call, variant, run, met>>

----------------------------------------------------------------------------
(* Optional values and Python truthiness                                   *)

None == << >>

Some(x) == << x >>

IsNone(o) == o = << >>

Get(o) == o[1]

\* `if x:` on an Optional[float]: present and not 0.0
TruthyNumber(o) == o # << >> /\ o[1] # 0

\* `if xs:` on a list
TruthyList(xs) == Len(xs) > 0

\* `a in xs` on a list
InList(a, xs) == \E i \in 1..Len(xs) : xs[i] = a

Max2(a, b) == IF a >= b THEN a ELSE b

NonZero(n) == IF n = 0 THEN 1 ELSE n

----------------------------------------------------------------------------
(* Texts that the code searches                                            *)

LowerChar(ch) ==
    CASE ch = "B" -> "b"
      [] ch = "S" -> "s"
      [] ch = "P" -> "p"
      [] ch = "M" -> "m"
      [] OTHER -> ch

\* str.lower()
Lower(text) == [i \in 1..Len(text) |-> LowerChar(text[i])]

\* `needle in hay` on strings
Contains(hay, needle) ==
    \E i \in 0..(Len(hay) - Len(needle)) :
        \A j \in 1..Len(needle) : hay[i + j] = needle[j]

TokBar == <<"b", "a", "r">>
TokSutomore == <<"s", "u", "t", "o", "m", "o", "r", "e">>
TokPetrovac == <<"p", "e", "t", "r", "o", "v", "a", "c">>

LocBar == <<"B", "a", "r">>
LocSutomore == <<"S", "u", "t", "o", "m", "o", "r", "e">>
LocPetrovac == <<"P", "e", "t", "r", "o", "v", "a", "c">>
LocBudva == <<"B", "u", "d", "v", "a">>
LocSutomoreBar == <<"S", "u", "t", "o", "m", "o", "r", "e", ",", " ", "B", "a", "r">>
LocMilan == <<"M", "i", "l", "a", "n">>

----------------------------------------------------------------------------
(* SearchCriteria and listings                                             *)

DefaultAmenities == <<"kitchen", "wifi", "air_conditioning">>

\* SearchCriteria(location, ..., max_price_per_night, amenities) with
\* __post_init__: amenities None becomes the default list, [] stays [].
\* The amenities argument is an Optional list.
SearchCriteria(location, max_price, amenities) ==
    [location |-> location,
     max_price_per_night |-> max_price,
     amenities |-> IF IsNone(amenities) THEN DefaultAmenities ELSE Get(amenities)]

\* PropertyListing as parse_booking_card / parse_airbnb_card and callers
\* build it; the fields with defaults take their defaults.
PropertyListing(platform, title, price, location, rating, amenities, url, instant) ==
    [platform |-> platform,
     title |-> title,
     price_per_night |-> price,
     total_price |-> price,
     location |-> location,
     rating |-> rating,
     review_count |-> None,
     amenities |-> amenities,
     url |-> url,
     property_type |-> IF platform = "Airbnb" THEN "entire_place" ELSE "apartment",
     host_name |-> None,
     instant_book |-> instant,
     cancellation_policy |-> None]

\* The fields DetailedPropertyListing adds, at their defaults (None).  The
\* Optional fields that no code path assigns (square_meters, the discounts,
\* the stay limits, ...) are left out: they are None in every listing.
DetailedDefaults ==
    [description |-> None,
     bedrooms |-> None,
     bathrooms |-> None,
     max_guests |-> None,
     cleaning_fee |-> None,
     service_fee |-> None,
     taxes |-> None,
     security_deposit |-> None,
     host_rating |-> None,
     host_response_time |-> None,
     property_features |-> None,
     house_rules |-> None,
     value_score |-> None,
     location_score |-> None,
     overall_score |-> None]

\* f overridden by g on g's domain
Override(f, g) == g @@ f

\* The fields of PropertyListing: the keywords that get_detailed_property_info
\* copies from the listing it is given.
BaseFields ==
    {"platform", "title", "price_per_night", "total_price", "location", "rating",
     "review_count", "amenities", "url", "property_type", "host_name",
     "instant_book", "cancellation_policy"}

\* DetailedPropertyListing(<the 13 base fields of listing>): whatever else
\* the listing carries (it may be a DetailedPropertyListing) is not copied.
DetailedPropertyListing(listing) ==
    Override(DetailedDefaults, [f \in BaseFields |-> listing[f]])

----------------------------------------------------------------------------
(* calculate_value_score                                                   *)

Return(v) == [exc |-> "none", value |-> v]

Raise(e) == [exc |-> e]

Returned(r) == r.exc = "none"

\* The denominator of the value scores computed under criteria c.
ScoreDen(c) ==
    5 * NonZero(c.max_price_per_night) * NonZero(Len(c.amenities))

\* The guard with >= in place of >: a price of 0 scored as a price.
PricePresentOrZero(listing) == listing.price_per_night >= 0

\* `if listing.price_per_night > 0`
PricePresent(listing) == listing.price_per_night > 0

\* The price score without its max(0, ...).
PriceTermUnclamped(listing, c) ==
    200 * NonZero(Len(c.amenities))
        * (c.max_price_per_night - listing.price_per_night)

\* The price score without its `100 -`: min(100, (price / max_price) * 100).
PriceTermInverted(listing, c) ==
    200 * NonZero(Len(c.amenities))
        * (IF listing.price_per_night < c.max_price_per_night
           THEN listing.price_per_night ELSE c.max_price_per_night)

\* max(0, 100 - (price / max_price) * 100) * 0.4, over ScoreDen(c)
PriceTerm(listing, c) ==
    200 * NonZero(Len(c.amenities))
        * Max2(0, c.max_price_per_night - listing.price_per_night)

\* len([a for a in criteria.amenities if a in listing.amenities])
AmenityMatches(listing, c) ==
    Cardinality({i \in 1..Len(c.amenities) : InList(c.amenities[i], listing.amenities)})

\* matches / len(criteria.amenities) * 100 * 0.3, over ScoreDen(c)
AmenityTerm(listing, c) ==
    150 * AmenityMatches(listing, c) * NonZero(c.max_price_per_night)

\* The rating score under the weight 0.3.
RatingTermHeavier(listing, c) ==
    3 * Get(listing.rating) * NonZero(c.max_price_per_night) * NonZero(Len(c.amenities))

\* (rating / 5.0) * 100 * 0.2, over ScoreDen(c); rating in tenths
RatingTerm(listing, c) ==
    2 * Get(listing.rating) * NonZero(c.max_price_per_night) * NonZero(Len(c.amenities))

\* (host_rating / 5.0) * 100 * 0.1, over ScoreDen(c); host_rating in tenths
HostTerm(listing, c) ==
    Get(listing.host_rating) * NonZero(c.max_price_per_night) * NonZero(Len(c.amenities))

\* The float divisions of the method: price / max_price_per_night and
\* matches / len(criteria.amenities) raise ZeroDivisionError on a zero divisor.
ValueScoreRaises(listing, c) ==
    \/ PricePresent(listing) /\ c.max_price_per_night = 0
    \/ TruthyList(listing.amenities) /\ Len(c.amenities) = 0

CalculateValueScore(listing, c) ==
    IF ValueScoreRaises(listing, c)
    THEN Raise("ZeroDivisionError")
    ELSE Return(
          (IF PricePresent(listing) THEN PriceTerm(listing, c) ELSE 0)
        + (IF TruthyList(listing.amenities) THEN AmenityTerm(listing, c) ELSE 0)
        + (IF TruthyNumber(listing.rating) THEN RatingTerm(listing, c) ELSE 0)
        + (IF TruthyNumber(listing.host_rating) THEN HostTerm(listing, c) ELSE 0))

----------------------------------------------------------------------------
(* calculate_location_score                                                *)

CalculateLocationScore(listing, c) ==
    IF Contains(Lower(listing.location), TokBar) THEN 80
    ELSE IF \/ Contains(Lower(listing.location), TokSutomore)
            \/ Contains(Lower(listing.location), TokPetrovac) THEN 60
    ELSE 40

----------------------------------------------------------------------------
(* extract_price                                                           *)
(* A text that is parsed is a sequence of one-character strings.  A float  *)
(* read from a text is the fraction num / den, den a power of ten.         *)

Zero == [num |-> 0, den |-> 1]

\* The texts of the model are over these characters and letters; \d matches
\* the ten ASCII digits among them.
Digits == {"0", "1", "2", "3", "4", "5", "6", "7", "8", "9"}

IsDigit(ch) == ch \in Digits

DigitValue(ch) ==
    CASE ch = "0" -> 0 [] ch = "1" -> 1 [] ch = "2" -> 2 [] ch = "3" -> 3
      [] ch = "4" -> 4 [] ch = "5" -> 5 [] ch = "6" -> 6 [] ch = "7" -> 7
      [] ch = "8" -> 8 [] ch = "9" -> 9

RECURSIVE DigitsValue(_)
DigitsValue(ds) ==
    IF ds = << >> THEN 0
    ELSE 10 * DigitsValue(SubSeq(ds, 1, Len(ds) - 1)) + DigitValue(ds[Len(ds)])

RECURSIVE Pow10(_)
Pow10(n) == IF n = 0 THEN 1 ELSE 10 * Pow10(n - 1)

AllDigits(ds) == \A i \in 1..Len(ds) : IsDigit(ds[i])

\* float(tok) on a text without blanks: an optional sign, then digits with
\* at most one "." among them and at least one digit; anything else in the
\* texts of the model is a ValueError.
FloatOf(tok) ==
    LET signed == tok # << >> /\ tok[1] \in {"-", "+"}
        body == IF signed THEN Tail(tok) ELSE tok
        dots == {i \in 1..Len(body) : body[i] = "."}
        d == IF dots = {} THEN Len(body) + 1 ELSE CHOOSE i \in dots : TRUE
        whole == SubSeq(body, 1, d - 1)
        frac == SubSeq(body, d + 1, Len(body))
        sign == IF signed /\ tok[1] = "-" THEN 0 - 1 ELSE 1
    IN  IF /\ Cardinality(dots) <= 1
           /\ AllDigits(whole) /\ AllDigits(frac)
           /\ Len(whole) + Len(frac) > 0
        THEN Return([num |-> sign * DigitsValue(whole \o frac), den |-> Pow10(Len(frac))])
        ELSE Raise("ValueError")

\* The replace without effect: the commas stay in the text.
KeepCommas(text) == text

NotComma(ch) == ch # ","

\* price_text.replace(',', '')
RemoveCommas(text) == SelectSeq(text, NotComma)

\* [\d,]
PriceClass == Digits \cup {","}

InPriceClass(ch) == ch \in PriceClass

\* The end of the longest run of characters of the set class that starts
\* at i (i - 1 when s[i] is not in the class): a greedy + or *.
RunEnd(s, i, class) ==
    CHOOSE j \in (i - 1)..Len(s) :
        /\ \A k \in i..j : s[k] \in class
        /\ j = Len(s) \/ s[j + 1] \notin class

\* re.search(r'[\d,]+\.?\d*', s): the leftmost match, each part greedy; no
\* part ever gives back, as what follows it can match the empty text.
PriceMatch(s) ==
    IF \A i \in 1..Len(s) : ~InPriceClass(s[i]) THEN None
    ELSE LET i == CHOOSE k \in 1..Len(s) :
                      InPriceClass(s[k]) /\ \A h \in 1..(k - 1) : ~InPriceClass(s[h])
             j == RunEnd(s, i, PriceClass)
             k == IF j < Len(s) /\ s[j + 1] = "." THEN j + 1 ELSE j
             e == RunEnd(s, k + 1, Digits)
         IN  Some(SubSeq(s, i, e))

\* extract_price: the bare except turns whatever is raised into 0.0
ExtractPrice(price_text) ==
    LET price_match == PriceMatch(RemoveCommas(price_text))
    IN  IF IsNone(price_match) THEN Return(Zero)
        ELSE LET f == FloatOf(Get(price_match))
             IN  IF Returned(f) THEN f ELSE Return(Zero)

----------------------------------------------------------------------------
(* get_detailed_property_info                                              *)

\* The outcome of loading a property page and running
\* extract_detailed_property_info on it: the driver raised (ok = FALSE), or
\* the dict `info` of the keys found on the page.
PageDown == [ok |-> FALSE]

PageInfo(info) == [ok |-> TRUE, info |-> info]

\* DetailedPropertyListing(platform=..., ..., host_name=listing.host_name,
\* ..., **detailed_info): a key of detailed_info that repeats a keyword
\* already given is a TypeError.  The only such key the extractor writes is
\* host_name.
MergeRaises(page) == page.ok /\ "host_name" \in DOMAIN page.info

\* The merge that also adds the cleaning fee of the page to total_price.
GetDetailedPropertyInfoAddingFees(listing, page) ==
    IF ~page.ok \/ MergeRaises(page)
    THEN DetailedPropertyListing(listing)
    ELSE LET merged == Override(DetailedPropertyListing(listing), page.info)
         IN  IF "cleaning_fee" \in DOMAIN page.info /\ ~IsNone(page.info.cleaning_fee)
             THEN [merged EXCEPT !.total_price = @ + Get(page.info.cleaning_fee)]
             ELSE merged

GetDetailedPropertyInfo(listing, page) ==
    IF ~page.ok \/ MergeRaises(page)
    THEN DetailedPropertyListing(listing)
    ELSE Override(DetailedPropertyListing(listing), page.info)

----------------------------------------------------------------------------
(* Sorting                                                                 *)

\* sorted() and list.sort() are stable: an insertion sort that puts an
\* element after the elements whose key is smaller or equal.  The elements
\* are the pairs <<key, item>>.
RECURSIVE InsertByKey(_, _)
InsertByKey(sorted, x) ==
    IF sorted = << >> THEN <<x>>
    ELSE IF Head(sorted)[1] <= x[1]
         THEN <<Head(sorted)>> \o InsertByKey(Tail(sorted), x)
         ELSE <<x>> \o sorted

RECURSIVE SortPairs(_, _)
SortPairs(pairs, k) ==
    IF k = 0 THEN << >> ELSE InsertByKey(SortPairs(pairs, k - 1), pairs[k])

\* seq in ascending order of keys (keys[i] is the key of seq[i])
StableSortBy(seq, keys) ==
    LET sorted == SortPairs([i \in 1..Len(seq) |-> <<keys[i], seq[i]>>], Len(seq))
    IN  [k \in 1..Len(seq) |-> sorted[k][2]]

Take(seq, n) == SubSeq(seq, 1, IF Len(seq) < n THEN Len(seq) ELSE n)

\* sorted(listings, key=lambda x: x.price_per_night)
SortedByPrice(listings) ==
    StableSortBy(listings, [i \in 1..Len(listings) |-> listings[i].price_per_night])

\* `x.overall_score or 0`
OverallKey(listing) ==
    IF TruthyNumber(listing.overall_score) THEN Get(listing.overall_score) ELSE 0

\* The sort without reverse=True.
SortByOverallScoreAscending(listings) ==
    StableSortBy(listings, [i \in 1..Len(listings) |-> OverallKey(listings[i])])

\* detailed_listings.sort(key=lambda x: x.overall_score or 0, reverse=True):
\* descending, and reverse=True keeps the original order of equal keys.
SortByOverallScore(listings) ==
    StableSortBy(listings, [i \in 1..Len(listings) |-> 0 - OverallKey(listings[i])])

----------------------------------------------------------------------------
(* parse_booking_card, parse_airbnb_card and the extraction loops          *)
(* A card is the record of what its elements hold: a field is None when    *)
(* find_element does not find the element (NoSuchElementException).        *)

ResultLimit == 20

\* The platform field the search of each results key writes.
PlatformName(key) == IF key = "booking_com" THEN "Booking.com" ELSE "Airbnb"

IsBlank(ch) == ch = " "

NotBlank(ch) == ch # " "

\* text.split()[0]: the first run of characters that are not blank; a text
\* of blanks only has no token (IndexError).
FirstToken(text) ==
    IF \A i \in 1..Len(text) : IsBlank(text[i]) THEN None
    ELSE LET i == CHOOSE k \in 1..Len(text) :
                      NotBlank(text[k]) /\ \A h \in 1..(k - 1) : IsBlank(text[h])
             unblank == {text[k] : k \in 1..Len(text)} \ {" "}
         IN  Some(SubSeq(text, i, RunEnd(text, i, unblank)))

\* A whole price, in currency units (the price texts of the cards of the
\* model write whole prices).
WholeUnits(q) == q.num \div q.den

\* A rating in tenths (the rating texts of the cards of the model have at
\* most one decimal).
Tenths(q) == (10 * q.num) \div q.den

\* try: rating = float(rating_element.text.split()[0])  except: rating = None
ParseRating(rating_text) ==
    IF IsNone(rating_text) THEN None
    ELSE LET tok == FirstToken(Get(rating_text))
         IN  IF IsNone(tok) THEN None
             ELSE LET f == FloatOf(Get(tok))
                  IN  IF Returned(f) THEN Some(Tenths(f.value)) ELSE None

\* An element that every statement outside the inner try needs is missing.
CardRaises(card) ==
    \/ IsNone(card.title)
    \/ IsNone(card.price_text)
    \/ IsNone(card.location)
    \/ IsNone(card.anchor)

\* parse_booking_card (key "booking_com") and parse_airbnb_card ("airbnb"):
\* None, or the listing.
ParseCard(card, key) ==
    IF CardRaises(card) THEN None
    ELSE Some(PropertyListing(PlatformName(key),
                              Get(card.title),
                              WholeUnits(ExtractPrice(Get(card.price_text)).value),
                              Get(card.location),
                              ParseRating(card.rating_text),
                              << >>,
                              Get(card.anchor),
                              FALSE))

\* The loop left at the first card without a listing.
RECURSIVE ParseCardsUntilFailure(_, _, _)
ParseCardsUntilFailure(cards, key, from) ==
    IF from > Len(cards) \/ IsNone(ParseCard(cards[from], key)) THEN << >>
    ELSE ParseCard(cards[from], key) \o ParseCardsUntilFailure(cards, key, from + 1)

\* The loop of extract_booking_results / extract_airbnb_results over
\* cards[from..]: a card without a listing is passed over.
RECURSIVE ParseCards(_, _, _)
ParseCards(cards, key, from) ==
    IF from > Len(cards) THEN << >>
    ELSE ParseCard(cards[from], key) \o ParseCards(cards, key, from + 1)

\* extract_booking_results / extract_airbnb_results on a page that shows
\* the cards: property_cards[:20]
ExtractResults(cards, key) == ParseCards(Take(cards, ResultLimit), key, 1)

----------------------------------------------------------------------------
(* analyze_search_results: its steps                                       *)

TopPerPlatform == 5

BestValueCount == 5

\* The order of results.items(): the order search_accommodations fills it.
Platforms == <<"booking_com", "airbnb">>

\* The detailed listings of one platform's list, under the pages of web.
DetailedOf(listings, web) ==
    LET top == Take(SortedByPrice(listings), TopPerPlatform)
    IN  [i \in 1..Len(top) |-> GetDetailedPropertyInfo(top[i], web[top[i].url])]

RECURSIVE CollectDetailed(_, _, _)
CollectDetailed(res, web, k) ==
    IF k > Len(Platforms) THEN << >>
    ELSE DetailedOf(res[Platforms[k]], web) \o CollectDetailed(res, web, k + 1)

RECURSIVE AllListings(_, _)
AllListings(res, k) ==
    IF k > Len(Platforms) THEN << >>
    ELSE res[Platforms[k]] \o AllListings(res, k + 1)

\* The three assignments of the scoring loop.
Scored(listing, c) ==
    LET v == CalculateValueScore(listing, c).value
        ls == CalculateLocationScore(listing, c)
    IN  [listing EXCEPT !.value_score = Some(v),
                        !.location_score = Some(ls),
                        !.overall_score = Some(v + ls * ScoreDen(c))]

RECURSIVE SumPrices(_)
SumPrices(seq) ==
    IF seq = << >> THEN 0 ELSE Head(seq).price_per_night + SumPrices(Tail(seq))

RECURSIVE MinPrice(_)
MinPrice(seq) ==
    IF Len(seq) = 1 THEN seq[1].price_per_night
    ELSE LET m == MinPrice(Tail(seq))
         IN  IF seq[1].price_per_night <= m THEN seq[1].price_per_night ELSE m

RECURSIVE MaxPrice(_)
MaxPrice(seq) ==
    IF Len(seq) = 1 THEN seq[1].price_per_night
    ELSE LET m == MaxPrice(Tail(seq))
         IN  IF seq[1].price_per_night >= m THEN seq[1].price_per_night ELSE m

HasPrice(listing) == listing.price_per_night > 0

\* [l for l in seq if l.price_per_night > 0]
Priced(seq) == SelectSeq(seq, HasPrice)

----------------------------------------------------------------------------
(* generate_recommendations                                                *)

\* np.mean of a non-empty list, as the fraction num / den
MeanPrice(listings) == [num |-> SumPrices(listings), den |-> Len(listings)]

\* `x.value_score or 0`
ValueKey(listing) ==
    IF TruthyNumber(listing.value_score) THEN Get(listing.value_score) ELSE 0

\* The last of the listings with the largest key.
BestByValueLast(listings) ==
    listings[CHOOSE i \in 1..Len(listings) :
        /\ \A j \in 1..Len(listings) : ValueKey(listings[j]) <= ValueKey(listings[i])
        /\ \A j \in (i + 1)..Len(listings) : ValueKey(listings[j]) < ValueKey(listings[i])]

\* max(listings, key=lambda x: x.value_score or 0): the first of the
\* listings with the largest key.
BestByValue(listings) ==
    listings[CHOOSE i \in 1..Len(listings) :
        /\ \A j \in 1..Len(listings) : ValueKey(listings[j]) <= ValueKey(listings[i])
        /\ \A j \in 1..(i - 1) : ValueKey(listings[j]) < ValueKey(listings[i])]

InBarArea(listing) == Contains(Lower(listing.location), TokBar)

IsInstantBook(listing) == listing.instant_book

\* No message at all.
NoRecommendations == << >>

\* What `if not listings` returns: the one message appended before it.
ExpandSearch == <<[kind |-> "expand_search"]>>

\* The messages, each as its kind and the values its template cites.  The
\* mean of no price is nan, and nan > max_price_per_night is False.
GenerateRecommendations(listings, c) ==
    IF listings = << >>
    THEN ExpandSearch
    ELSE
    LET priced == Priced(listings)
        best == BestByValue(listings)
        bar == SelectSeq(listings, InBarArea)
        instant == SelectSeq(listings, IsInstantBook)
    IN    (IF priced # << >> /\ SumPrices(priced) > c.max_price_per_night * Len(priced)
           THEN <<[kind |-> "above_budget", average |-> MeanPrice(priced)]>>
           ELSE << >>)
       \o <<[kind |-> "best_value", title |-> best.title,
             price_per_night |-> best.price_per_night]>>
       \o (IF bar # << >> THEN <<[kind |-> "bar_area", count |-> Len(bar)]>> ELSE << >>)
       \o (IF instant # << >>
           THEN <<[kind |-> "instant_book", count |-> Len(instant)]>> ELSE << >>)

----------------------------------------------------------------------------
(* generate_market_insights                                                *)

PopularCount == 10

\* The same without the `if not listings` return before it.
MarketInsightsRaisesUnguarded(listings) == Priced(listings) = << >>

\* min(prices) of an empty list is a ValueError; it is reached when there
\* are listings and none has a price > 0.
MarketInsightsRaises(listings) ==
    listings # << >> /\ Priced(listings) = << >>

\* np.median of a non-empty list, as a fraction
MedianPrice(listings) ==
    LET s == SortedByPrice(listings)
        n == Len(s)
    IN  IF n % 2 = 1
        THEN [num |-> s[(n + 1) \div 2].price_per_night, den |-> 1]
        ELSE [num |-> s[n \div 2].price_per_night + s[(n \div 2) + 1].price_per_night,
              den |-> 2]

RECURSIVE SumSquares(_)
SumSquares(seq) ==
    IF seq = << >> THEN 0
    ELSE Head(seq).price_per_night * Head(seq).price_per_night + SumSquares(Tail(seq))

\* The square of np.std (the population standard deviation), as a fraction
VariancePrice(listings) ==
    [num |-> Len(listings) * SumSquares(listings)
                 - SumPrices(listings) * SumPrices(listings),
     den |-> Len(listings) * Len(listings)]

\* The stats of one platform: every listing of it counts, priced or not.
PlatformStats(listings, platform) ==
    LET OfPlatform(l) == l.platform = platform
        own == SelectSeq(listings, OfPlatform)
    IN  [count |-> Len(own),
         avg_price |-> MeanPrice(own),
         prices |-> [i \in 1..Len(own) |-> own[i].price_per_night]]

RECURSIVE AmenitiesOf(_)
\* every amenity of every listing, in the order the loops meet them
AmenitiesOf(listings) ==
    IF listings = << >> THEN << >>
    ELSE Head(listings).amenities \o AmenitiesOf(Tail(listings))

RECURSIVE FirstSeen(_, _)
\* the keys of amenity_counts, in insertion order
FirstSeen(seq, seen) ==
    IF seq = << >> THEN << >>
    ELSE IF InList(Head(seq), seen) THEN FirstSeen(Tail(seq), seen)
    ELSE <<Head(seq)>> \o FirstSeen(Tail(seq), Append(seen, Head(seq)))

CountOf(a, seq) == Cardinality({i \in 1..Len(seq) : seq[i] = a})

\* The same sorted without reverse=True.
PopularAmenitiesAscending(listings) ==
    LET every == AmenitiesOf(listings)
        names == FirstSeen(every, << >>)
        items == [i \in 1..Len(names) |-> <<names[i], CountOf(names[i], every)>>]
    IN  Take(StableSortBy(items, [i \in 1..Len(items) |-> items[i][2]]), PopularCount)

\* sorted(amenity_counts.items(), key=lambda x: x[1], reverse=True)[:10]
PopularAmenities(listings) ==
    LET every == AmenitiesOf(listings)
        names == FirstSeen(every, << >>)
        items == [i \in 1..Len(names) |-> <<names[i], CountOf(names[i], every)>>]
    IN  Take(StableSortBy(items, [i \in 1..Len(items) |-> 0 - items[i][2]]), PopularCount)

\* The empty dict.
NoInsights == << >>

\* The insights of listings; where MarketInsightsRaises holds there are none.
GenerateMarketInsights(listings) ==
    IF listings = << >>
    THEN NoInsights
    ELSE
    LET priced == Priced(listings)
    IN  [price_distribution |->
             [min |-> MinPrice(priced),
              max |-> MaxPrice(priced),
              median |-> MedianPrice(priced),
              variance |-> VariancePrice(priced)],
         platform_comparison |->
             [p \in {listings[i].platform : i \in 1..Len(listings)} |->
                 PlatformStats(listings, p)],
         popular_amenities |-> PopularAmenities(listings)]

----------------------------------------------------------------------------
(* analyze_search_results, the whole method                                *)

AnalyzeSearchResults(res, c, web) ==
    LET detailed == CollectDetailed(res, web, 1)
        all == AllListings(res, 1)
    IN  IF \E i \in 1..Len(detailed) : ValueScoreRaises(detailed[i], c)
        THEN Raise("ZeroDivisionError")
        ELSE
        LET ranked == SortByOverallScore([i \in 1..Len(detailed) |-> Scored(detailed[i], c)])
            prices == Priced(all)
            IsBudget(l) == 5 * l.price_per_night <= 4 * c.max_price_per_night
            IsPremium(l) == 5 * l.price_per_night >= 6 * c.max_price_per_night
        IN  IF MarketInsightsRaises(ranked)
            THEN Raise("ValueError")
            ELSE [exc |-> "none",
                  ranked |-> ranked,
                  total_properties_found |-> Len(all),
                  average_price_per_night |->
                      IF prices # << >>
                      THEN [num |-> SumPrices(prices), den |-> Len(prices)]
                      ELSE [num |-> 0, den |-> 1],
                  price_range |->
                      IF prices # << >>
                      THEN <<MinPrice(prices), MaxPrice(prices)>>
                      ELSE <<0, 0>>,
                  best_value_properties |-> Take(ranked, BestValueCount),
                  budget_options |-> SelectSeq(ranked, IsBudget),
                  premium_options |-> SelectSeq(ranked, IsPremium),
                  recommendations |-> GenerateRecommendations(ranked, c),
                  market_insights |-> GenerateMarketInsights(ranked)]

----------------------------------------------------------------------------
(* The inputs of the analysis runs                                         *)

MaxPerPlatform == 3

AmenKW == <<"kitchen", "wifi">>

\* The url of a card: each platform links to its own pages.
UrlOf(key, n) ==
    IF key = "booking_com"
    THEN CASE n = 1 -> "b1" [] n = 2 -> "b2" [] n = 3 -> "b3" [] OTHER -> "b4"
    ELSE CASE n = 1 -> "a1" [] n = 2 -> "a2" [] n = 3 -> "a3" [] OTHER -> "a4"

\* The listings a results list is drawn from: the two listings of the
\* worked example, and a listing without a price (0, as the card parsers
\* write it) that is otherwise L2, so that it ties with L2.  A results page
\* can show a property more than once, so a list can repeat a card.
Cards(key) ==
    { PropertyListing(PlatformName(key), "L1", 35, LocBar, Some(45), AmenKW,
                      UrlOf(key, 1), FALSE),
      PropertyListing(PlatformName(key), "L2", 50, LocBar, Some(40), DefaultAmenities,
                      UrlOf(key, 2), TRUE),
      PropertyListing(PlatformName(key), "Z", 0, LocBar, Some(40), DefaultAmenities,
                      UrlOf(key, 3), FALSE) }

Urls == {UrlOf(key, n) : key \in {"booking_com", "airbnb"}, n \in 1..4}

ListsUpTo(S, n) == UNION {[1..k -> S] : k \in 0..n}

InfoPlain ==
    [description |-> Some("sea view"),
     bedrooms |-> Some(2),
     cleaning_fee |-> Some(15),
     property_features |-> Some(<<"wifi">>),
     house_rules |-> Some(<< >>)]

InfoHost ==
    [description |-> None,
     host_name |-> Some("Ana"),
     host_rating |-> Some(48),
     property_features |-> Some(<< >>),
     house_rules |-> Some(<< >>)]

\* What the property pages hold during one run: every kind of page is
\* met in each, and every url shows two kinds.
Webs ==
    { [u \in Urls |-> CASE u \in {"b1", "a1"} -> PageInfo(InfoPlain)
                        [] u \in {"b2", "a2"} -> PageInfo(InfoHost)
                        [] OTHER -> PageDown],
      [u \in Urls |-> CASE u \in {"b1", "a1"} -> PageDown
                        [] u \in {"b2", "a2"} -> PageInfo(InfoPlain)
                        [] OTHER -> PageInfo(InfoHost)] }

RunCriteria ==
    { SearchCriteria(LocBar, 40, None),
      SearchCriteria(LocBar, 0, None) }

NoCall == [op |-> "none"]

NoRun == [kind |-> "none"]

NoMet ==
    [faults |-> [key \in {"booking_com", "airbnb"} |-> "none"],
     pages |-> [key \in {"booking_com", "airbnb"} |-> << >>]]

----------------------------------------------------------------------------
(* The analysis run                                                        *)

Init ==
    /\ pc = "ready"
    /\ criteria = SearchCriteria(LocBar, 40, None)
    /\ results = [key \in {"booking_com", "airbnb"} |-> << >>]
    /\ analysis = [exc |-> "pending"]
    /\ call = NoCall
    /\ variant = NoCall
    /\ run = NoRun
    /\ met = NoMet

\* A caller holds the results of a search and the criteria it ran under:
\* the arguments of the analysis to come.
SubmitResults ==
    /\ pc = "ready"
    /\ \E c \in RunCriteria,
          b \in ListsUpTo(Cards("booking_com"), MaxPerPlatform),
          a \in ListsUpTo(Cards("airbnb"), MaxPerPlatform) :
          /\ criteria' = c
          /\ results' = [key \in {"booking_com", "airbnb"} |->
                            IF key = "booking_com" THEN b ELSE a]
    /\ pc' = "submitted"
    /\ UNCHANGED <<analysis, call, variant, run, met>>

\* The same with `listings.sort(key=...)` in place of sorted(listings, ...):
\* the caller's lists are put in price order.
AnalyzeSortingInPlace ==
    /\ pc = "submitted"
    /\ \E web \in Webs :
          LET out == AnalyzeSearchResults(results, criteria, web)
          IN  /\ analysis' = out
              /\ pc' = IF Returned(out) THEN "analyzed" ELSE "raised"
    /\ results' = [key \in DOMAIN results |-> SortedByPrice(results[key])]
    /\ UNCHANGED <<criteria, call, variant, run, met>>

\* analysis = agent.analyze_search_results(results, criteria)
Analyze ==
    /\ pc = "submitted"
    /\ \E web \in Webs :
          LET out == AnalyzeSearchResults(results, criteria, web)
          IN  /\ analysis' = out
              /\ pc' = IF Returned(out) THEN "analyzed" ELSE "raised"
    /\ UNCHANGED <<criteria, results, call, variant, run, met>>

Next == SubmitResults \/ Analyze

Spec == Init /\ [][Next]_vars

----------------------------------------------------------------------------
(* The analysis run over long result lists                                 *)

MaxWide == 6

\* The listings a long results list is drawn from: one under the budget
\* threshold of RunCriteria (25 <= 0.8 * 40) and one over the premium
\* threshold (50 >= 1.2 * 40).
WideCards(key) ==
    { PropertyListing(PlatformName(key), "B", 25, LocBar, Some(45), AmenKW,
                      UrlOf(key, 4), FALSE),
      PropertyListing(PlatformName(key), "L2", 50, LocBar, Some(40), DefaultAmenities,
                      UrlOf(key, 2), TRUE) }

\* A caller holds the results of a search that found many properties on
\* Booking.com and at most one on Airbnb.
SubmitWideResults ==
    /\ pc = "ready"
    /\ \E c \in RunCriteria,
          b \in ListsUpTo(WideCards("booking_com"), MaxWide),
          a \in ListsUpTo(WideCards("airbnb"), 1) :
          /\ criteria' = c
          /\ results' = [key \in {"booking_com", "airbnb"} |->
                            IF key = "booking_com" THEN b ELSE a]
    /\ pc' = "submitted"
    /\ UNCHANGED <<analysis, call, variant, run, met>>

NextWide == SubmitWideResults \/ Analyze

SpecWide == Init /\ [][NextWide]_vars

----------------------------------------------------------------------------
(* Direct calls of the scoring methods                                     *)

ScorePrices == {0, 5, 35, 50}

\* In tenths: 0.0, 4.0, 4.5 and 9.2 (a review score out of ten).
ScoreRatings == {None, Some(0), Some(40), Some(45), Some(92)}

ScoreHostRatings == {None, Some(45), Some(50)}

ScoreAmenityLists == {<< >>, AmenKW, DefaultAmenities, <<"pool">>}

ScoreLocations == {LocBar, LocSutomore, LocPetrovac, LocBudva, LocSutomoreBar, LocMilan}

ScoreCriteria ==
    { SearchCriteria(loc, m, am) :
        loc \in {LocBar, LocBudva}, m \in {0, 40}, am \in {None, Some(<< >>)} }

\* A detailed listing as a caller of the scoring methods holds it.
ScoreListing(price, rating, host_rating, amenities, location) ==
    [DetailedPropertyListing(
        PropertyListing("Airbnb", "T", price, location, rating, amenities, "a1", FALSE))
     EXCEPT !.host_rating = host_rating]

ScoreListings ==
    { ScoreListing(p, r, h, am, LocBar) :
        p \in ScorePrices, r \in ScoreRatings, h \in ScoreHostRatings,
        am \in ScoreAmenityLists }

\* The listings that differ from l in the one field named.
Variants(l) ==
    [price_per_night : ScorePrices \ {l.price_per_night}]
    \cup [rating : ScoreRatings \ {l.rating}]
    \cup [host_rating : ScoreHostRatings \ {l.host_rating}]
    \cup [amenities : ScoreAmenityLists \ {l.amenities}]

\* score = agent.calculate_value_score(listing, criteria)
CallValueScore ==
    /\ call = NoCall
    /\ \E l \in ScoreListings, c \in ScoreCriteria :
          call' = [op |-> "calculate_value_score", listing |-> l, criteria |-> c,
                   ret |-> CalculateValueScore(l, c)]
    /\ UNCHANGED <<pc, criteria, results, analysis, variant, run, met>>

\* The same call on a listing that differs in one field, same criteria.
CallValueScoreVariant ==
    /\ call # NoCall
    /\ call.op = "calculate_value_score"
    /\ variant = NoCall
    /\ \E v \in Variants(call.listing) :
          LET l == Override(call.listing, v)
          IN  variant' = [op |-> "calculate_value_score", listing |-> l,
                          criteria |-> call.criteria,
                          ret |-> CalculateValueScore(l, call.criteria)]
    /\ UNCHANGED <<pc, criteria, results, analysis, call, run, met>>

\* score = agent.calculate_location_score(listing, criteria)
CallLocationScore ==
    /\ call = NoCall
    /\ \E loc \in ScoreLocations, c \in ScoreCriteria :
          LET l == ScoreListing(35, None, None, << >>, loc)
          IN  call' = [op |-> "calculate_location_score", listing |-> l, criteria |-> c,
                       ret |-> Return(CalculateLocationScore(l, c))]
    /\ UNCHANGED <<pc, criteria, results, analysis, variant, run, met>>

NextScore == CallValueScore \/ CallValueScoreVariant \/ CallLocationScore

SpecScore == Init /\ [][NextScore]_vars

----------------------------------------------------------------------------
(* Direct calls of the parsers                                             *)

MaxTextLen == 4

TextChars == {"1", "0", ",", ".", "$"}

\* Every text over TextChars of at most MaxTextLen characters.
ShortTexts == ListsUpTo(TextChars, MaxTextLen)

DigitChar(d) == <<"0", "1", "2", "3", "4", "5", "6", "7", "8", "9">>[d + 1]

\* The decimal digits of n
RECURSIVE ToDigits(_)
ToDigits(n) ==
    IF n < 10 THEN <<DigitChar(n)>>
    ELSE ToDigits(n \div 10) \o <<DigitChar(n % 10)>>

\* The digits with a comma before every group of three
RECURSIVE GroupThousands(_)
GroupThousands(ds) ==
    IF Len(ds) <= 3 THEN ds
    ELSE GroupThousands(SubSeq(ds, 1, Len(ds) - 3))
             \o <<",">> \o SubSeq(ds, Len(ds) - 2, Len(ds))

\* A price as a site writes it: a whole part, with or without thousands
\* separators, an optional fraction, and a currency sign before or after.
WrittenPrices ==
    [units : {0, 7, 35, 1234},
     frac : {<< >>, <<"5">>, <<"0", "5">>, <<"9", "9">>},
     grouped : BOOLEAN,
     before : {<< >>, <<"$">>, <<"U", "S", "$", " ">>, <<"R", "s", ".">>},
     after : {<< >>, <<" ", "E", "U", "R">>}]
    \cup
    [units : {1234567},
     frac : {<< >>, <<"5">>},
     grouped : BOOLEAN,
     before : {<< >>, <<"$">>},
     after : {<< >>, <<" ", "E", "U", "R">>}]

PriceTextOf(w) ==
    w.before
    \o (IF w.grouped THEN GroupThousands(ToDigits(w.units)) ELSE ToDigits(w.units))
    \o (IF w.frac = << >> THEN << >> ELSE <<".">> \o w.frac)
    \o w.after

\* The number that w writes
PriceValueOf(w) ==
    [num |-> w.units * Pow10(Len(w.frac)) + DigitsValue(w.frac),
     den |-> Pow10(Len(w.frac))]

\* price = agent.extract_price(price_text)
CallExtractPrice ==
    /\ call = NoCall
    /\ \E text \in ShortTexts \cup {PriceTextOf(w) : w \in WrittenPrices} :
          call' = [op |-> "extract_price", price_text |-> text,
                   ret |-> ExtractPrice(text)]
    /\ UNCHANGED <<pc, criteria, results, analysis, variant, run, met>>

TextPrice35 == <<"$", "3", "5">>
TextPrice1250 == <<"U", "S", "$", " ", "1", ",", "2", "5", "0">>
TextNoPrice == <<"n", "/", "a">>

TextRating45 == <<"4", ".", "5", " ", "(", "1", "2", ")">>
TextRating92 == <<"9", ".", "2">>
TextRatingNew == <<"N", "e", "w">>
TextRatingComma == <<"4", ",", "5">>
TextRatingBlank == <<" ">>

Card(title, price_text, location, rating_text, anchor) ==
    [title |-> title, price_text |-> price_text, location |-> location,
     rating_text |-> rating_text, anchor |-> anchor]

\* The cards of the direct calls of the card parsers.
RawCards ==
    { Card(t, p, l, r, a) :
        t \in {None, Some("T")},
        p \in {None, Some(TextPrice35), Some(TextPrice1250), Some(TextNoPrice)},
        l \in {None, Some(LocBar)},
        r \in {None, Some(TextRating45), Some(TextRating92), Some(TextRatingNew),
               Some(TextRatingComma), Some(TextRatingBlank), Some(<< >>)},
        a \in {None, Some("b1")} }

\* listing = agent.parse_booking_card(card) / agent.parse_airbnb_card(card)
CallParseCard ==
    /\ call = NoCall
    /\ \E card \in RawCards, key \in {"booking_com", "airbnb"} :
          call' = [op |-> "parse_card", key |-> key, card |-> card,
                   ret |-> ParseCard(card, key)]
    /\ UNCHANGED <<pc, criteria, results, analysis, variant, run, met>>

MaxProbe == 2

MaxFill == 19

\* A card with every element, its texts parseable.
FullCard == Card(Some("F"), Some(TextPrice35), Some(LocBar), Some(TextRating45), Some("b2"))

\* The cards that differ from one card to the next of a page.
ProbeCards ==
    { Card(Some("T"), Some(TextPrice1250), Some(LocBar), Some(TextRating45), Some("b1")),
      Card(Some("T"), Some(TextNoPrice), Some(LocBar), Some(TextRatingNew), Some("b1")),
      Card(None, Some(TextPrice35), Some(LocBar), Some(TextRating45), Some("b1")),
      Card(Some("T"), None, Some(LocBar), None, Some("b1")),
      Card(Some("T"), Some(TextPrice35), None, Some(TextRating45), Some("b1")) }

\* The pages of the model: some cards, a run of full cards, and a last card.
\* The run is empty (a short page) or brings the page to about ResultLimit
\* cards, under it and over it.
Pages ==
    { head \o [i \in 1..n |-> FullCard] \o tail :
        head \in ListsUpTo(ProbeCards, MaxProbe),
        n \in {0} \cup (MaxFill - 2)..MaxFill,
        tail \in ListsUpTo(ProbeCards, 1) }

\* listings = agent.extract_booking_results() / agent.extract_airbnb_results()
\* on a results page that shows the cards
CallExtractResults ==
    /\ call = NoCall
    /\ \E cards \in Pages, key \in {"booking_com", "airbnb"} :
          call' = [op |-> "extract_results", key |-> key, cards |-> cards,
                   ret |-> ExtractResults(cards, key)]
    /\ UNCHANGED <<pc, criteria, results, analysis, variant, run, met>>

NextParse == CallExtractPrice \/ CallParseCard \/ CallExtractResults

SpecParse == Init /\ [][NextParse]_vars

----------------------------------------------------------------------------
(* Direct calls of get_detailed_property_info                              *)

NoKeys == [k \in {} |-> None]

\* The dict that extract_detailed_property_info returns: description,
\* property_features and house_rules are always written; bedrooms and
\* cleaning_fee when the page shows them; host_name when the page has a
\* host profile, and host_rating when the profile shows a rating.
DetailBags ==
    { [description |-> d, property_features |-> Some(pf), house_rules |-> Some(<< >>)]
        @@ (IF b THEN [bedrooms |-> Some(2)] ELSE NoKeys)
        @@ (IF c THEN [cleaning_fee |-> Some(15)] ELSE NoKeys)
        @@ (CASE h = "none" -> NoKeys
              [] h = "name" -> [host_name |-> Some("Ana")]
              [] OTHER -> [host_name |-> Some("Ana"), host_rating |-> Some(48)]) :
        d \in {None, Some("sea view")},
        pf \in {<< >>, <<"wifi">>},
        b \in BOOLEAN,
        c \in BOOLEAN,
        h \in {"none", "name", "rated"} }

MergePages == {PageDown} \cup {PageInfo(info) : info \in DetailBags}

\* detailed = agent.get_detailed_property_info(listing), the property page
\* of the listing being `page`
CallMerge ==
    /\ call = NoCall
    /\ \E listing \in Cards("booking_com"), page \in MergePages :
          call' = [op |-> "get_detailed_property_info", listing |-> listing,
                   page |-> page, ret |-> GetDetailedPropertyInfo(listing, page)]
    /\ UNCHANGED <<pc, criteria, results, analysis, variant, run, met>>

\* again = agent.get_detailed_property_info(detailed): the listing that the
\* first call returned is merged once more, with what the page shows then
CallMergeAgain ==
    /\ call # NoCall
    /\ call.op = "get_detailed_property_info"
    /\ variant = NoCall
    /\ \E page \in MergePages :
          variant' = [op |-> "get_detailed_property_info", listing |-> call.ret,
                      page |-> page, ret |-> GetDetailedPropertyInfo(call.ret, page)]
    /\ UNCHANGED <<pc, criteria, results, analysis, call, run, met>>

NextMerge == CallMerge \/ CallMergeAgain

SpecMerge == Init /\ [][NextMerge]_vars

----------------------------------------------------------------------------
(* Claims about calculate_value_score and calculate_location_score         *)

IsValueCall(r) == r # NoCall /\ r.op = "calculate_value_score"

IsLocationCall(r) == r # NoCall /\ r.op = "calculate_location_score"

\* The two calls are on listings that differ in the field f alone.
DifferOnlyIn(f) ==
    /\ IsValueCall(call)
    /\ IsValueCall(variant)
    /\ call.listing[f] # variant.listing[f]
    /\ variant.listing = [call.listing EXCEPT ![f] = variant.listing[f]]

\* The amenity, rating and host components of a value score, over ScoreDen(c).
OtherComponents(l, c) ==
      (IF TruthyList(l.amenities) THEN 150 * AmenityMatches(l, c) * NonZero(c.max_price_per_night) ELSE 0)
    + (IF TruthyNumber(l.rating)
       THEN 2 * Get(l.rating) * NonZero(c.max_price_per_night) * NonZero(Len(c.amenities)) ELSE 0)
    + (IF TruthyNumber(l.host_rating)
       THEN Get(l.host_rating) * NonZero(c.max_price_per_night) * NonZero(Len(c.amenities)) ELSE 0)

\* C2: the value score of every listing, under every criteria with
\* max_price_per_night > 0, lies in [0, 100].
C2_ValueScoreInRange ==
    (IsValueCall(call) /\ call.criteria.max_price_per_night > 0 /\ Returned(call.ret))
    => /\ call.ret.value >= 0
       /\ call.ret.value <= 100 * ScoreDen(call.criteria)

OmittedTerm(f, term(_, _)) ==
    (DifferOnlyIn(f) /\ Returned(call.ret) /\ Returned(variant.ret))
    => /\ IsNone(call.listing[f])
          => call.ret.value = variant.ret.value - term(variant.listing[f], call.criteria)
       /\ IsNone(variant.listing[f])
          => variant.ret.value = call.ret.value - term(call.listing[f], call.criteria)

\* 0.2 * (r / 5 * 100), over ScoreDen(c); r in tenths
RatingWeighted(r, c) ==
    2 * Get(r) * NonZero(c.max_price_per_night) * NonZero(Len(c.amenities))

\* 0.1 * (h / 5 * 100), over ScoreDen(c); h in tenths
HostWeighted(h, c) ==
    Get(h) * NonZero(c.max_price_per_night) * NonZero(Len(c.amenities))

\* C5: a missing component is omitted, not zero-filled or renormalized: the
\* value score of a listing without a rating is that of the same listing
\* with rating r minus 0.2 * (r / 5 * 100), and the same for host_rating
\* with the weight 0.1.
C5_MissingComponentOmitted ==
    /\ OmittedTerm("rating", RatingWeighted)
    /\ OmittedTerm("host_rating", HostWeighted)

C5_Witness ==
    /\ DifferOnlyIn("rating")
    /\ call.listing.rating = Some(45)
    /\ IsNone(variant.listing.rating)
    /\ call.listing.price_per_night = 35
    /\ call.listing.amenities = AmenKW
    /\ Returned(call.ret) /\ Returned(variant.ret)
    /\ variant.ret.value < call.ret.value

\* C6: under criteria with an empty amenity list calculate_value_score
\* returns normally, for every listing.
C6_EmptyAmenitiesGuarded ==
    ( /\ IsValueCall(call)
      /\ call.criteria.amenities = << >>
      /\ call.criteria.max_price_per_night > 0 )
    => Returned(call.ret)

\* C7: under criteria with max_price_per_night = 0 calculate_value_score
\* returns a score, for every listing.
C7_ZeroMaxPriceAbsorbed ==
    ( /\ IsValueCall(call)
      /\ call.criteria.max_price_per_night = 0
      /\ call.criteria.amenities # << >> )
    => Returned(call.ret)

\* C8: the location score is 80 when the location text holds the locale of
\* the search (criteria.location), else 60 when it holds a nearby locale,
\* else 40.
C8_LocationScoreByCriteria ==
    IsLocationCall(call)
    => call.ret.value =
          IF Contains(Lower(call.listing.location), Lower(call.criteria.location)) THEN 80
          ELSE IF \/ Contains(Lower(call.listing.location), TokSutomore)
                  \/ Contains(Lower(call.listing.location), TokPetrovac) THEN 60
          ELSE 40

----------------------------------------------------------------------------
(* Claims about analyze_search_results                                     *)

Analyzed == pc = "analyzed"

IsL1(l) ==
    /\ l.price_per_night = 35 /\ l.amenities = AmenKW
    /\ l.rating = Some(45) /\ IsNone(l.host_rating)

IsL2(l) ==
    /\ l.price_per_night = 50 /\ l.amenities = DefaultAmenities
    /\ l.rating = Some(40) /\ IsNone(l.host_rating)

ExampleCriteria ==
    criteria.max_price_per_night = 40 /\ criteria.amenities = DefaultAmenities

\* C1: under max_price_per_night = 40 and the amenities kitchen, wifi,
\* air_conditioning, L1 (35, kitchen and wifi, 4.5) gets the value score 43
\* and L2 (50, all three, 4.0) gets 46, and with equal location scores the
\* ranking has L2 before L1.
C1_WorkedExample ==
    (Analyzed /\ ExampleCriteria)
    => \A i, j \in 1..Len(analysis.ranked) :
          (IsL1(analysis.ranked[i]) /\ IsL2(analysis.ranked[j]))
          => /\ analysis.ranked[i].value_score = Some(43 * ScoreDen(criteria))
             /\ analysis.ranked[j].value_score = Some(46 * ScoreDen(criteria))
             /\ analysis.ranked[i].location_score = analysis.ranked[j].location_score
                => j < i

C1_Witness ==
    /\ Analyzed /\ ExampleCriteria
    /\ Len(results["booking_com"]) > 0
    /\ results["booking_com"][1].price_per_night = 35
    /\ \E i, j \in 1..Len(analysis.ranked) :
          /\ IsL1(analysis.ranked[i]) /\ IsL2(analysis.ranked[j])
          /\ analysis.ranked[i].location_score = analysis.ranked[j].location_score
          /\ j < i

\* C9: the ranking is in descending order of overall_score, and listings of
\* equal overall_score are in ascending order of price_per_night, whichever
\* platform each came from.
C9_TiesByAscendingPrice ==
    Analyzed
    => \A i, j \in 1..Len(analysis.ranked) :
          i < j
          => LET a == analysis.ranked[i]
                 b == analysis.ranked[j]
             IN  \/ Get(a.overall_score) > Get(b.overall_score)
                 \/ /\ a.overall_score = b.overall_score
                    /\ a.price_per_night <= b.price_per_night

\* C10: best_value_properties is the first min(5, n) listings of the
\* ranking: at most 5, and each with an overall_score at least that of
\* every scored listing left out.
C10_BestValueIsTopFive ==
    Analyzed
    => LET n == Len(analysis.ranked)
           k == IF n < 5 THEN n ELSE 5
           best == analysis.best_value_properties
       IN  /\ Len(best) = k
           /\ Len(best) <= 5
           /\ \A i \in 1..k : best[i] = analysis.ranked[i]
           /\ \A i \in 1..k : \A j \in (k + 1)..n :
                 Get(best[i].overall_score) >= Get(analysis.ranked[j].overall_score)
           /\ \A i \in 1..k : \A j \in (k + 1)..n :
                 ~IsNone(best[i].overall_score) /\ ~IsNone(analysis.ranked[j].overall_score)

C10_Witness ==
    /\ Analyzed
    /\ Len(analysis.ranked) = 6
    /\ Len(analysis.best_value_properties) = 5
    /\ Len(results["booking_com"]) > 0
    /\ results["booking_com"][1].price_per_night = 35
    /\ IsL1(analysis.ranked[6])
    /\ Get(analysis.ranked[6].overall_score)
          < Get(analysis.best_value_properties[5].overall_score)


----------------------------------------------------------------------------
(* Claims about the cohorts                                                *)

\* price_per_night <= 0.8 * max_price_per_night, under the criteria of the run
MeetsBudget(l) == 5 * l.price_per_night <= 4 * criteria.max_price_per_night

\* price_per_night >= 1.2 * max_price_per_night, under the criteria of the run
MeetsPremium(l) == 5 * l.price_per_night >= 6 * criteria.max_price_per_night

\* The base fields of the listings of seq, as a bag: a listing of the
\* analysis is an input listing when its base fields are those of the input.
BaseBag(seq) ==
    LET base == [i \in 1..Len(seq) |-> [f \in BaseFields |-> seq[i][f]]]
        rng == {base[i] : i \in 1..Len(seq)}
    IN  [b \in rng |-> Cardinality({i \in 1..Len(seq) : base[i] = b})]

\* C11: budget_options is exactly the input listings with price_per_night
\* <= 0.8 * max_price_per_night and premium_options exactly those with
\* price_per_night >= 1.2 * max_price_per_night: every input listing that
\* meets a threshold is in the cohort, however many each platform returned.
C11_CohortsCoverEveryListing ==
    Analyzed
    => /\ BaseBag(analysis.budget_options)
            = BaseBag(SelectSeq(AllListings(results, 1), MeetsBudget))
       /\ BaseBag(analysis.premium_options)
            = BaseBag(SelectSeq(AllListings(results, 1), MeetsPremium))

\* C12: a price_per_night of 0 is "unknown", never "free": no listing with
\* price_per_night = 0 is in budget_options.
C12_UnknownPriceNotBudget ==
    Analyzed
    => \A i \in 1..Len(analysis.budget_options) :
          analysis.budget_options[i].price_per_night # 0

----------------------------------------------------------------------------
(* Claims about the parsers                                                *)

IsPriceCall(r) == r # NoCall /\ r.op = "extract_price"

\* The fractions p and q are the same number.
SameNumber(p, q) == p.num * q.den = q.num * p.den

\* The first decimal number of a text, once its commas are removed: the
\* longest numeral that starts at the first digit; 0 when there is no digit.
FirstNumber(text) ==
    LET s == SelectSeq(text, NotComma)
    IN  IF \A i \in 1..Len(s) : ~IsDigit(s[i]) THEN Zero
        ELSE LET i == CHOOSE k \in 1..Len(s) :
                          IsDigit(s[k]) /\ \A h \in 1..(k - 1) : ~IsDigit(s[h])
                 IsNumeral(j) ==
                     /\ \A k \in i..j : IsDigit(s[k]) \/ s[k] = "."
                     /\ Cardinality({k \in i..j : s[k] = "."}) <= 1
                 j == CHOOSE k \in i..Len(s) :
                          IsNumeral(k) /\ (k = Len(s) \/ ~IsNumeral(k + 1))
                 dot == {k \in i..j : s[k] = "."}
                 d == IF dot = {} THEN j + 1 ELSE CHOOSE k \in dot : TRUE
             IN  [num |-> DigitsValue(SubSeq(s, i, d - 1) \o SubSeq(s, d + 1, j)),
                  den |-> Pow10(j - d + (IF dot = {} THEN 1 ELSE 0))]

\* C13: extract_price returns for every text, without raising, the first
\* decimal number found once the commas are removed, and 0.0 for a text
\* without digits; for a text that writes one number, with or without
\* thousands separators and a currency sign, it returns that number.
C13_ExtractPriceTotalAndExact ==
    IsPriceCall(call)
    => /\ Returned(call.ret)
       /\ SameNumber(call.ret.value, FirstNumber(call.price_text))
       /\ (\A i \in 1..Len(call.price_text) : ~IsDigit(call.price_text[i]))
            => call.ret.value = Zero
       /\ \A w \in WrittenPrices :
            call.price_text = PriceTextOf(w)
            => SameNumber(call.ret.value, PriceValueOf(w))

C13_Witness ==
    /\ IsPriceCall(call)
    /\ call.price_text = <<"$", "1", ",", "2", "3", "4", ".", "0", "5">>
    /\ Returned(call.ret)
    /\ call.ret.value = [num |-> 123405, den |-> 100]

IsParseCall(r) == r # NoCall /\ r.op = "parse_card"

\* C14: every listing that parse_booking_card / parse_airbnb_card produces
\* has price_per_night >= 0 and a rating that is absent or within [0, 5]
\* (in tenths: 0..50).
C14_ParsedListingInvariants ==
    (IsParseCall(call) /\ ~IsNone(call.ret))
    => LET listing == Get(call.ret)
       IN  /\ listing.price_per_night >= 0
           /\ \/ IsNone(listing.rating)
              \/ Get(listing.rating) >= 0 /\ Get(listing.rating) <= 50

IsExtractCall(r) == r # NoCall /\ r.op = "extract_results"

\* The card has its title, price, location and link elements.
HasRequired(card) ==
    /\ ~IsNone(card.title) /\ ~IsNone(card.price_text)
    /\ ~IsNone(card.location) /\ ~IsNone(card.anchor)

\* The text has no digit: a price text without a number.
NoNumber(text) == \A i \in 1..Len(text) : ~IsDigit(text[i])

\* The rating text is missing or does not start with a numeral.
NoLeadingNumeral(rating_text) ==
    \/ IsNone(rating_text)
    \/ Get(rating_text) = << >>
    \/ ~IsDigit(Get(rating_text)[1])
    \/ \E i \in 1..Len(Get(rating_text)) :
          /\ Get(rating_text)[i] \notin {"0", "1", "2", "3", "4", "5", "6", "7", "8", "9", "."}
          /\ Get(rating_text)[i] # " "
          /\ \A h \in 1..(i - 1) : Get(rating_text)[h] # " "

\* The listings are those of the cards, one for one and in order: each has
\* the title, location and url of its card, price 0 where the price text
\* has no number, and no rating where the rating text has no numeral.
ListingsOf(listings, cards) ==
    /\ Len(listings) = Len(cards)
    /\ \A k \in 1..Len(cards) :
          /\ listings[k].title = Get(cards[k].title)
          /\ listings[k].location = Get(cards[k].location)
          /\ listings[k].url = Get(cards[k].anchor)
          /\ NoNumber(Get(cards[k].price_text)) <=> listings[k].price_per_night = 0
          /\ NoLeadingNumeral(cards[k].rating_text) <=> IsNone(listings[k].rating)

\* C15 as stated: a card without a required element yields no listing and
\* is skipped, and every other card of the page is still processed: the
\* extracted list is the listings of the cards that have their elements,
\* an unparseable price or rating text never dropping a card.
C15_EveryOtherCardProcessed ==
    IsExtractCall(call)
    => ListingsOf(call.ret, SelectSeq(call.cards, HasRequired))

\* C15 amended: the same of the first 20 cards of the page, the cards that
\* the extraction visits.
C15_EveryOtherVisitedCardProcessed ==
    /\ IsParseCall(call) => (IsNone(call.ret) <=> ~HasRequired(call.card))
    /\ IsExtractCall(call)
       => ListingsOf(call.ret, SelectSeq(Take(call.cards, 20), HasRequired))

C15_Witness ==
    /\ IsExtractCall(call)
    /\ Len(call.cards) = 22
    /\ IsNone(call.cards[1].title)
    /\ call.cards[2].price_text = Some(TextNoPrice)
    /\ call.cards[2].rating_text = Some(TextRatingNew)
    /\ call.cards[3] = FullCard
    /\ Len(call.ret) = 19
    /\ call.ret[1].price_per_night = 0 /\ IsNone(call.ret[1].rating)
    /\ call.ret[2].title = "F"

----------------------------------------------------------------------------
(* Claims about get_detailed_property_info                                 *)

IsMergeCall(r) == r # NoCall /\ r.op = "get_detailed_property_info"

\* The merge of r had an extended-attribute bag to merge.
HasBag(r) == IsMergeCall(r) /\ r.page.ok

\* C16: the merge combines the listing with the extended attributes: every
\* field of the bag has the bag's value in the result, and every base field
\* that is not in the bag keeps the listing's value, for every bag, those
\* that carry a host_name included.
C16_MergeTakesEveryBagField ==
    HasBag(call)
    => /\ \A f \in DOMAIN call.page.info : call.ret[f] = call.page.info[f]
       /\ \A f \in BaseFields \ DOMAIN call.page.info : call.ret[f] = call.listing[f]

\* The fields whose value can be None.
OptionalFields ==
    {"rating", "review_count", "host_name", "cancellation_policy"}
        \cup DOMAIN DetailedDefaults

\* The field f is set on the listing l.
IsSetOn(l, f) ==
    f \in DOMAIN l /\ (f \in OptionalFields => ~IsNone(l[f]))

\* The field f is absent from the bag, or None in it.
AbsentIn(info, f) == f \notin DOMAIN info \/ IsNone(info[f])

\* The merge of r kept every field that was set on its listing and that
\* its bag does not have.
KeepsPresentFields(r) ==
    HasBag(r)
    => \A f \in DOMAIN r.listing :
          (IsSetOn(r.listing, f) /\ AbsentIn(r.page.info, f))
          => r.ret[f] = r.listing[f]

\* C17: the merge never overwrites a present field with an absent one, also
\* when the listing merged is itself the result of an earlier merge.
C17_MergeNeverClobbers ==
    KeepsPresentFields(call) /\ KeepsPresentFields(variant)

\* C18: the merge is idempotent: merging the bag x into merge(e, x) gives
\* merge(e, x), field for field.
C18_MergeIdempotent ==
    (IsMergeCall(call) /\ IsMergeCall(variant) /\ variant.page = call.page)
    => /\ DOMAIN variant.ret = DOMAIN call.ret
       /\ \A f \in DOMAIN call.ret : variant.ret[f] = call.ret[f]

C18_Witness ==
    /\ HasBag(call) /\ HasBag(variant)
    /\ variant.page = call.page
    /\ "cleaning_fee" \in DOMAIN call.page.info
    /\ "host_name" \notin DOMAIN call.page.info
    /\ call.ret.cleaning_fee = Some(15)
    /\ call.ret.bedrooms = Some(2)
    /\ variant.listing = call.ret
    /\ variant.ret = call.ret

----------------------------------------------------------------------------
(* Claims about the listing set and the market insights                    *)

\* C19: the identity of a listing is its url: the listings that the
\* analysis works on hold at most one record for each url.
C19_OneRecordPerUrl ==
    Analyzed
    => \A i, j \in 1..Len(analysis.ranked) :
          i # j => analysis.ranked[i].url # analysis.ranked[j].url

\* The analysis call is over: it returned or raised.
AnalysisOver == pc \in {"analyzed", "raised"}

NoListings == \A key \in DOMAIN results : results[key] = << >>

\* C20: over an empty listing set generate_market_insights returns an
\* empty mapping and does not raise.
C20_NoListingsNoInsights ==
    (AnalysisOver /\ NoListings)
    => /\ pc = "analyzed"
       /\ DOMAIN analysis.market_insights = {}

C20_Witness ==
    /\ Analyzed /\ NoListings
    /\ analysis.ranked = << >>
    /\ analysis.total_properties_found = 0
    /\ analysis.market_insights = NoInsights

----------------------------------------------------------------------------
(* Claims about the market statistics                                      *)

OfPlatformPriced(listings, platform) ==
    LET Own(l) == l.platform = platform /\ HasPrice(l)
    IN  SelectSeq(listings, Own)

\* C21: listings without a price (price_per_night = 0) are left out of
\* every market statistic: each platform's avg_price is the mean of the
\* prices > 0 of that platform, and the price distribution is taken over
\* the prices > 0.
C21_ZeroPriceLeftOutOfStatistics ==
    (Analyzed /\ analysis.ranked # << >>)
    => LET insights == analysis.market_insights
           priced == Priced(analysis.ranked)
       IN  /\ insights.price_distribution.min = MinPrice(priced)
           /\ insights.price_distribution.max = MaxPrice(priced)
           /\ insights.price_distribution.median = MedianPrice(priced)
           /\ \A p \in DOMAIN insights.platform_comparison :
                 LET own == OfPlatformPriced(analysis.ranked, p)
                     avg == insights.platform_comparison[p].avg_price
                 IN  own # << >>
                     => avg.num * Len(own) = SumPrices(own) * avg.den

----------------------------------------------------------------------------
(* Direct calls of generate_recommendations and generate_market_insights   *)

MaxAdvised == 3

\* A detailed listing as the scoring loop leaves it, with its value_score.
AdvisedListing(title, price, location, instant, amenities, value_score) ==
    Override(DetailedPropertyListing(
                 PropertyListing("Booking.com", title, price, location, Some(40),
                                 amenities, "b1", instant)),
             [value_score |-> value_score])

\* Listings for the recommendations: A and B tie on the value_score, C has
\* none and no price, D has the score 0, E has the largest.
RecommendListings ==
    { AdvisedListing("A", 35, LocBar, FALSE, AmenKW, Some(300)),
      AdvisedListing("B", 50, LocBudva, TRUE, AmenKW, Some(300)),
      AdvisedListing("C", 0, LocBudva, FALSE, << >>, None),
      AdvisedListing("D", 50, LocBudva, FALSE, AmenKW, Some(0)),
      AdvisedListing("E", 35, LocSutomoreBar, TRUE, AmenKW, Some(450)) }

RecommendCriteria ==
    { SearchCriteria(LocBar, 40, None),
      SearchCriteria(LocBudva, 40, None),
      SearchCriteria(LocBar, 30, None) }

\* Listings for the insights: fourteen amenity names between them, one
\* list that names an amenity twice, one empty list on a listing without
\* a price.
InsightListings ==
    { AdvisedListing("A", 35, LocBar, FALSE,
                     <<"wifi", "kitchen", "pool", "parking">>, Some(300)),
      AdvisedListing("B", 50, LocBar, FALSE,
                     <<"ac", "wifi", "balcony", "tv", "washer">>, Some(300)),
      AdvisedListing("C", 50, LocBar, FALSE,
                     <<"gym", "spa", "sauna", "wifi", "kitchen", "garden">>, Some(300)),
      AdvisedListing("D", 35, LocBar, FALSE, <<"kitchen", "kitchen">>, Some(300)),
      AdvisedListing("E", 0, LocBar, FALSE, << >>, None),
      AdvisedListing("F", 35, LocBar, FALSE, <<"garden", "terrace", "bbq">>, Some(300)) }

\* recommendations = agent.generate_recommendations(listings, criteria)
CallRecommendations ==
    /\ call = NoCall
    /\ \E listings \in ListsUpTo(RecommendListings, MaxAdvised), c \in RecommendCriteria :
          call' = [op |-> "generate_recommendations", listings |-> listings,
                   criteria |-> c, ret |-> GenerateRecommendations(listings, c)]
    /\ UNCHANGED <<pc, criteria, results, analysis, variant, run, met>>

\* insights = agent.generate_market_insights(listings, criteria)
CallMarketInsights ==
    /\ call = NoCall
    /\ \E listings \in ListsUpTo(InsightListings, MaxAdvised) :
          call' = [op |-> "generate_market_insights", listings |-> listings,
                   ret |-> IF MarketInsightsRaises(listings)
                           THEN Raise("ValueError")
                           ELSE Return(GenerateMarketInsights(listings))]
    /\ UNCHANGED <<pc, criteria, results, analysis, variant, run, met>>

NextAdvise == CallRecommendations \/ CallMarketInsights

SpecAdvise == Init /\ [][NextAdvise]_vars

----------------------------------------------------------------------------
(* Claims about the popular amenities                                      *)

IsInsightsCall(r) == r.op = "generate_market_insights"

\* Where the amenity lists of the listings name a: <<listing, place>>
PlacesOf(a, listings) ==
    UNION { {<<i, k>> : k \in {k \in 1..Len(listings[i].amenities) :
                                   listings[i].amenities[k] = a}} :
            i \in 1..Len(listings) }

NamedAmenities(listings) ==
    UNION { {listings[i].amenities[k] : k \in 1..Len(listings[i].amenities)} :
            i \in 1..Len(listings) }

Earlier(p, q) == p[1] < q[1] \/ (p[1] = q[1] /\ p[2] < q[2])

FirstPlace(a, listings) ==
    CHOOSE p \in PlacesOf(a, listings) :
        \A q \in PlacesOf(a, listings) : p = q \/ Earlier(p, q)

\* C22: popular_amenities holds at most 10 pairs (amenity, count), the
\* count being the occurrences of the amenity in all the amenity lists; the
\* pairs are in descending order of count and, at equal counts, in the
\* order the amenities were first seen; no amenity left out has a larger
\* count than one that is in.
C22_PopularAmenitiesTopTen ==
    (IsInsightsCall(call) /\ Returned(call.ret) /\ call.listings # << >>)
    => LET top == call.ret.value.popular_amenities
           ls == call.listings
           Count(a) == Cardinality(PlacesOf(a, ls))
           included == {top[i][1] : i \in 1..Len(top)}
       IN  /\ Len(top) <= 10
           /\ \A i \in 1..Len(top) :
                 /\ top[i][1] \in NamedAmenities(ls)
                 /\ top[i][2] = Count(top[i][1])
           /\ \A i, j \in 1..Len(top) :
                 i < j => \/ top[i][2] > top[j][2]
                          \/ /\ top[i][2] = top[j][2]
                             /\ Earlier(FirstPlace(top[i][1], ls), FirstPlace(top[j][1], ls))
           /\ \A a \in NamedAmenities(ls) \ included :
                 \A i \in 1..Len(top) : Count(a) <= top[i][2]

\* The listings A, B, C name twelve amenities: wifi three times, kitchen
\* twice, the other ten once; the last two first seen are left out.
C22_Witness ==
    /\ IsInsightsCall(call) /\ Returned(call.ret)
    /\ Len(call.listings) = 3
    /\ call.listings[1].title = "A"
    /\ call.listings[2].title = "B"
    /\ call.listings[3].title = "C"
    /\ call.ret.value.popular_amenities =
          << <<"wifi", 3>>, <<"kitchen", 2>>, <<"pool", 1>>, <<"parking", 1>>,
             <<"ac", 1>>, <<"balcony", 1>>, <<"tv", 1>>, <<"washer", 1>>,
             <<"gym", 1>>, <<"spa", 1>> >>

----------------------------------------------------------------------------
(* Claims about the recommendations                                        *)

IsRecommendCall(r) == r.op = "generate_recommendations"

\* C23: for an empty listing set generate_recommendations returns exactly
\* one message, the one that advises to expand the search.
C23_NoListingsOneMessage ==
    (IsRecommendCall(call) /\ call.listings = << >>)
    => /\ Len(call.ret) = 1
       /\ call.ret[1].kind = "expand_search"

C23_Witness ==
    /\ IsRecommendCall(call)
    /\ call.listings = << >>
    /\ call.criteria.location = LocBudva
    /\ call.ret = <<[kind |-> "expand_search"]>>

KindsOf(messages) == [i \in 1..Len(messages) |-> messages[i].kind]

\* The listing's location text holds the locale of the search.
MatchesLocale(l, c) == Contains(Lower(l.location), Lower(c.location))

\* C24: for a non-empty listing set the messages come in the fixed order:
\* the budget message only if the average price is above
\* max_price_per_night, the best-value message always and once, the locale
\* count only if a listing matches the locale of the search, the
\* instant-book count only if a listing offers instant booking.
C24_MessagesInFixedOrder ==
    (IsRecommendCall(call) /\ call.listings # << >>)
    => LET ls == call.listings
           c == call.criteria
           priced == Priced(ls)
       IN  KindsOf(call.ret) =
                 (IF priced # << >>
                     /\ SumPrices(priced) > c.max_price_per_night * Len(priced)
                  THEN <<"above_budget">> ELSE << >>)
              \o <<"best_value">>
              \o (IF \E i \in 1..Len(ls) : MatchesLocale(ls[i], c)
                  THEN <<"bar_area">> ELSE << >>)
              \o (IF \E i \in 1..Len(ls) : ls[i].instant_book
                  THEN <<"instant_book">> ELSE << >>)

ScoreOrZero(l) == IF IsNone(l.value_score) THEN 0 ELSE Get(l.value_score)

\* C25: the best-value message cites a listing whose value_score no other
\* listing exceeds (no value_score counting as 0), and among the listings
\* with that score the earliest of the list.
C25_BestValueIsEarliestMaximum ==
    (IsRecommendCall(call) /\ call.listings # << >>)
    => LET ls == call.listings
           cited == SelectSeq(call.ret, LAMBDA m : m.kind = "best_value")
       IN  /\ Len(cited) = 1
           /\ \E i \in 1..Len(ls) :
                 /\ cited[1].title = ls[i].title
                 /\ cited[1].price_per_night = ls[i].price_per_night
                 /\ \A j \in 1..Len(ls) : ScoreOrZero(ls[j]) <= ScoreOrZero(ls[i])
                 /\ \A j \in 1..(i - 1) : ScoreOrZero(ls[j]) < ScoreOrZero(ls[i])

\* C (no value_score), then B and A with the same score: B is cited.
C25_Witness ==
    /\ IsRecommendCall(call)
    /\ Len(call.listings) = 3
    /\ call.listings[1].title = "C"
    /\ call.listings[2].title = "B"
    /\ call.listings[3].title = "A"
    /\ \E i \in 1..Len(call.ret) :
          call.ret[i] = [kind |-> "best_value", title |-> "B", price_per_night |-> 50]

----------------------------------------------------------------------------
(* Claims about the analysis as a whole                                    *)

InputListings == results["booking_com"] \o results["airbnb"]

\* C26: total_properties_found is the number of listings of all platforms;
\* the average and the range are taken over the listings with a price > 0,
\* with min <= average <= max; where no listing has a price > 0 (the empty
\* batch too) the analysis has average 0, range (0, 0) and three empty
\* cohorts.
C26_TotalsOverPricedListings ==
    (AnalysisOver /\ criteria.max_price_per_night > 0)
    => LET priced == Priced(InputListings)
       IN  IF priced = << >>
           THEN /\ Analyzed
                /\ analysis.total_properties_found = Len(InputListings)
                /\ analysis.average_price_per_night.num = 0
                /\ analysis.price_range = <<0, 0>>
                /\ analysis.best_value_properties = << >>
                /\ analysis.budget_options = << >>
                /\ analysis.premium_options = << >>
           ELSE Analyzed
                => LET avg == analysis.average_price_per_night
                   IN  /\ analysis.total_properties_found = Len(InputListings)
                       /\ avg.num * Len(priced) = SumPrices(priced) * avg.den
                       /\ analysis.price_range = <<MinPrice(priced), MaxPrice(priced)>>
                       /\ analysis.price_range[1] * avg.den <= avg.num
                       /\ avg.num <= analysis.price_range[2] * avg.den

C29_InsightsReturnWithoutPrices ==
    (AnalysisOver /\ ~NoListings) => analysis.exc # "ValueError"

----------------------------------------------------------------------------
(* search_booking_com, search_airbnb, search_accommodations                *)

\* The steps of a platform search, in the order of the try body.
SearchSteps == <<"dates", "navigation", "cookies", "filters", "extraction">>

\* What a search meets: no failure, or the failure of one of its steps.
Faults == {"none"} \cup {SearchSteps[i] : i \in 1..Len(SearchSteps)}

\* The try body of search_booking_com / search_airbnb.  strptime and
\* driver.get raise; accept_cookies and apply_*_filters catch what their
\* statements raise and return, so the body goes on; extract_*_results
\* catches a failure of the wait for the cards and returns the listings it
\* has by then, none.
SearchBody(key, fault, cards) ==
    CASE fault = "dates" -> Raise("ValueError")
      [] fault = "navigation" -> Raise("WebDriverException")
      [] fault = "extraction" -> Return(<< >>)
      [] OTHER -> Return(ExtractResults(cards, key))

\* The same without the try: what the body raises leaves the method.
SearchPlatformUnguarded(key, fault, cards) == SearchBody(key, fault, cards)

\* search_booking_com (key "booking_com") and search_airbnb ("airbnb"):
\* `except Exception` logs the error and returns [].
SearchPlatform(key, fault, cards) ==
    LET r == SearchBody(key, fault, cards)
    IN  IF Returned(r) THEN r ELSE Return(<< >>)

\* search_accommodations: the Booking.com search, then the Airbnb search;
\* an exception of either would leave it.
SearchAccommodations(faults, pages) ==
    LET b == SearchPlatform("booking_com", faults["booking_com"], pages["booking_com"])
    IN  IF ~Returned(b) THEN b
        ELSE LET a == SearchPlatform("airbnb", faults["airbnb"], pages["airbnb"])
             IN  IF ~Returned(a) THEN a
                 ELSE Return([key \in {"booking_com", "airbnb"} |->
                                 IF key = "booking_com" THEN b.value ELSE a.value])

----------------------------------------------------------------------------
(* The runs that create an agent: test_basic_functionality,                *)
(* interactive_search (basic or advanced agent), quick_search              *)

RunKinds == {"test", "interactive_basic", "interactive_advanced", "quick"}

\* A card with a price and one without, on the pages of a platform.
PricedCard(key) ==
    Card(Some("P"), Some(TextPrice35), Some(LocBar), Some(TextRating45),
         Some(UrlOf(key, 1)))

UnpricedCard(key) ==
    Card(Some("U"), Some(TextNoPrice), Some(LocBar), Some(TextRatingNew),
         Some(UrlOf(key, 3)))

\* The results pages a run can be shown.
ShownPages(key) ==
    IF key = "booking_com"
    THEN { << >>, <<PricedCard(key)>>, <<UnpricedCard(key)>>,
           <<UnpricedCard(key), PricedCard(key)>> }
    ELSE { << >>, <<PricedCard(key)>> }

\* The search calls of a run: the test calls the two searches itself.
SearchCalls(kind) ==
    IF kind = "test" THEN <<"search_booking_com", "search_airbnb">>
    ELSE <<"search_accommodations">>

\* The step after the search.
AfterSearch(kind) ==
    CASE kind = "test" -> "close"
      [] kind = "interactive_basic" -> "save"
      [] OTHER -> "analyze"

\* What the run saves with.
SaveCall(kind) ==
    IF kind = "interactive_basic" THEN "save_results" ELSE "save_detailed_analysis"

\* The exceptions a save can end with.  quick_search calls
\* save_detailed_analysis(analysis) without the required criteria: a
\* TypeError, every time.  The other runs pass every argument; writing the
\* files can fail.
SaveOutcomes(kind) ==
    IF kind = "quick" THEN {"TypeError"} ELSE {"none", "OSError"}

Failed(step, exc) == Some([step |-> step, exc |-> exc])

\* The criteria of a run: the test and quick_search build theirs,
\* interactive_search asks the user (a maximum price of 0 is accepted).
CriteriaOf(kind) ==
    CASE kind = "test" -> {SearchCriteria(LocBar, 50, Some(AmenKW))}
      [] kind = "quick" -> {SearchCriteria(LocBar, 40, Some(DefaultAmenities))}
      [] OTHER -> RunCriteria

\* agent = AccommodationSearchAgent(...) / AdvancedAccommodationAgent(...):
\* the constructor starts the browser.
StartRun ==
    /\ pc = "ready"
    /\ run = NoRun
    /\ \E kind \in RunKinds :
       \E c \in CriteriaOf(kind) :
          /\ run' = [kind |-> kind, browser |-> "open", steps |-> << >>,
                     error |-> None]
          /\ criteria' = c
    /\ pc' = "search"
    /\ UNCHANGED <<results, analysis, call, variant, met>>

\* results = agent.search_accommodations(criteria); in the test,
\* agent.search_booking_com(criteria) then agent.search_airbnb(criteria)
RunSearch ==
    /\ pc = "search"
    /\ \E fb \in Faults, fa \in Faults,
          pb \in ShownPages("booking_com"), pa \in ShownPages("airbnb") :
          LET faults == [key \in {"booking_com", "airbnb"} |->
                            IF key = "booking_com" THEN fb ELSE fa]
              pages == [key \in {"booking_com", "airbnb"} |->
                            IF key = "booking_com" THEN pb ELSE pa]
              r == SearchAccommodations(faults, pages)
          IN  /\ met' = [faults |-> faults, pages |-> pages]
              /\ results' = IF Returned(r) THEN r.value ELSE results
              /\ run' = [run EXCEPT !.steps = @ \o SearchCalls(run.kind),
                                    !.error = IF Returned(r) THEN None
                                              ELSE Failed("search", r.exc)]
              /\ pc' = IF Returned(r) THEN AfterSearch(run.kind) ELSE "except"
    /\ UNCHANGED <<criteria, analysis, call, variant>>

\* The lists a platform search of a run can return.
SearchReturns(key) ==
    {<< >>} \cup {ExtractResults(cards, key) : cards \in ShownPages(key)}

\* The mappings search_accommodations can return in a run.
SearchOutcomes ==
    { [key \in {"booking_com", "airbnb"} |-> IF key = "booking_com" THEN b ELSE a] :
        b \in SearchReturns("booking_com"), a \in SearchReturns("airbnb") }

\* analyze_search_results over the outcomes of a run's search, tabulated:
\* AnalysisOf[res][c][web] is AnalyzeSearchResults(res, c, web).
AnalysisOf ==
    [res \in SearchOutcomes |->
        [c \in RunCriteria |->
            [web \in Webs |-> AnalyzeSearchResults(res, c, web)]]]

\* analysis = agent.analyze_search_results(results, criteria)
RunAnalyze ==
    /\ pc = "analyze"
    /\ \E web \in Webs :
          LET out == AnalysisOf[results][criteria][web]
          IN  /\ analysis' = out
              /\ run' = [run EXCEPT !.steps = Append(@, "analyze_search_results"),
                                    !.error = IF Returned(out) THEN None
                                              ELSE Failed("analyze", out.exc)]
              /\ pc' = IF Returned(out) THEN "save" ELSE "except"
    /\ UNCHANGED <<criteria, results, call, variant, met>>

\* agent.save_results(results) / agent.save_detailed_analysis(analysis,
\* criteria) / in quick_search agent.save_detailed_analysis(analysis)
RunSave ==
    /\ pc = "save"
    /\ \E exc \in SaveOutcomes(run.kind) :
          /\ run' = [run EXCEPT !.steps = Append(@, SaveCall(run.kind)),
                                !.error = IF exc = "none" THEN None
                                          ELSE Failed("save", exc)]
          /\ pc' = IF exc # "none" THEN "except"
                   ELSE IF run.kind = "interactive_basic" THEN "close"
                   ELSE "assist"
    /\ UNCHANGED <<criteria, results, analysis, call, variant, met>>

\* agent.automated_booking_assistant(analysis, criteria)
RunAssist ==
    /\ pc = "assist"
    /\ run' = [run EXCEPT !.steps = Append(@, "automated_booking_assistant")]
    /\ pc' = "close"
    /\ UNCHANGED <<criteria, results, analysis, call, variant, met>>

\* agent.close(): the last statement of the try in interactive_search and
\* quick_search, the finally clause in the test.
RunClose ==
    /\ pc = "close"
    /\ run' = [run EXCEPT !.steps = Append(@, "close"), !.browser = "closed"]
    /\ pc' = "done"
    /\ UNCHANGED <<criteria, results, analysis, call, variant, met>>

\* `except Exception`: the handler prints the error.  The test goes on to
\* its finally clause; interactive_search and quick_search return.
RunExcept ==
    /\ pc = "except"
    /\ pc' = IF run.kind = "test" THEN "close" ELSE "done"
    /\ UNCHANGED <<criteria, results, analysis, call, variant, run, met>>

NextRun ==
    StartRun \/ RunSearch \/ RunAnalyze \/ RunSave \/ RunAssist \/ RunClose \/ RunExcept

SpecRun == Init /\ [][NextRun]_vars

\* A run is a sequential program: the statement that comes next is
\* executed.
SpecRunLive == SpecRun /\ WF_vars(NextRun)

----------------------------------------------------------------------------
(* Claims about the searches and the runs                                  *)

\* The run has called its search.
Searched == run.kind # "none" /\ run.steps # << >>

SearchRaised == run.error # None /\ Get(run.error).step = "search"

BothPlatforms == {"booking_com", "airbnb"}

\* C28: neither search raises; whatever step of a search fails, the search
\* returns a list and the list is empty; the mapping of search_accommodations
\* has both keys, and the Airbnb search runs whatever the Booking.com
\* search met.
C28_EmptyListOnAnyFailure ==
    Searched
    => /\ ~SearchRaised
       /\ DOMAIN results = BothPlatforms
       /\ \A key \in BothPlatforms :
             /\ results[key] \in Seq({results[key][i] : i \in 1..Len(results[key])})
             /\ met.faults[key] # "none" => results[key] = << >>
       /\ met.faults["airbnb"] = "none"
          => results["airbnb"] = ExtractResults(met.pages["airbnb"], "airbnb")

\* C28, amended: neither search raises and each returns a list; the list
\* is empty when date parsing, navigation or extraction fails; a failure at
\* the cookie banner or at the filters is absorbed there and the search
\* returns the listings of the page; the mapping of search_accommodations
\* has both keys, and the Airbnb search runs whatever the Booking.com
\* search met.
C28_SearchesNeverRaise ==
    Searched
    => /\ ~SearchRaised
       /\ DOMAIN results = BothPlatforms
       /\ \A key \in BothPlatforms :
             /\ results[key] \in Seq({results[key][i] : i \in 1..Len(results[key])})
             /\ met.faults[key] \in {"dates", "navigation", "extraction"}
                => results[key] = << >>
             /\ met.faults[key] \in {"none", "cookies", "filters"}
                => results[key] = ExtractResults(met.pages[key], key)

\* The Booking.com search failed at navigation and returned []; the Airbnb
\* search ran, met a failure at its cookie banner and returned the listing
\* of its page.
C28_Witness ==
    /\ Searched
    /\ run.kind = "interactive_advanced"
    /\ pc = "analyze"
    /\ met.faults["booking_com"] = "navigation"
    /\ met.pages["booking_com"] # << >>
    /\ results["booking_com"] = << >>
    /\ met.faults["airbnb"] = "cookies"
    /\ Len(results["airbnb"]) = 1
    /\ results["airbnb"][1].title = "P"
    /\ results["airbnb"][1].price_per_night = 35

BrowserOpen == run.kind # "none" /\ run.browser = "open"

BrowserClosed == run.kind # "none" /\ run.browser = "closed"

QuickRun == run.kind = "quick"

QuickOrder ==
    <<"search_accommodations", "analyze_search_results", "save_detailed_analysis",
      "automated_booking_assistant", "close">>

QuickRunComplete == QuickRun /\ run.steps = QuickOrder

\* C30: in every run that creates an agent the browser is closed in the
\* end, on every path, and in quick_search the steps search, analyze,
\* save_detailed_analysis, automated_booking_assistant and close are all
\* executed, in that order.
C30_BrowserClosedInTheEnd ==
    /\ BrowserOpen ~> BrowserClosed
    /\ QuickRun ~> QuickRunComplete
====
